---- MODULE Spec2Model ----
(***************************************************************************)
(* Model of src/partition/grid.rs: the uniform-grid spatial partition      *)
(* (CellKey, Cell, GridPartition) of the OpenAOE reimplementation.         *)
(*                                                                         *)
(* Spec      drives one GridPartition with update_entity and query calls.  *)
(* SpecCell  drives one stand-alone Cell with add and remove calls.        *)
(***************************************************************************)
EXTENDS Integers, Sequences, FiniteSets

VARIABLES
    cell_width,       \* GridPartition.cell_width  (i32, fixed at construction)
    cell_height,      \* GridPartition.cell_height (i32, fixed at construction)
    overflow_checks,  \* build profile: TRUE = i32 overflow panics, FALSE = it wraps
    entities,         \* GridPartition.entities: HashMap<u32, CellKey>
    cells,            \* GridPartition.cells: HashMap<CellKey, Cell>
    result,           \* the Vec<u32> returned by the last completed query
    panicked,         \* TRUE once a call has panicked (the run is over)
    lastOp,           \* history: the call that produced this state
    lastPos,          \* history: entity id -> position of its most recent update
    firstPos,         \* history: entity id -> position of its first update
    nUpd,             \* history: entity id -> number of update_entity calls for it
    nOps,             \* history: number of calls made on the grid
    cell,             \* SpecCell: the entities Vec of a stand-alone Cell
    cellOp,           \* SpecCell history: the call that produced this cell
    keyIn,            \* SpecKey: the position last given to cell_key
    keyOut            \* SpecKey: the CellKey (row, col) it returned, <<>> before

gridVars == <<cell_width, cell_height, overflow_checks, entities, cells, result,
              panicked, lastOp, lastPos, firstPos, nUpd, nOps>>
cellVars == <<cell, cellOp>>
keyVars == <<keyIn, keyOut>>
vars == <<gridVars, cellVars, keyVars>>

----------------------------------------------------------------------------
(* Bounds and input sets *)

\* i32::MAX; row and col of CellKey and every coordinate are i32.
MaxI32 == 2147483647
MinI32 == -MaxI32 - 1

\* number of calls made on one grid
MaxOps == 3
\* a query enumerates at most MaxSpan + 1 rows and MaxSpan + 1 columns
MaxSpan == 2
\* length of the stand-alone cell
MaxCellLen == 4
\* SpecKey: largest magnitude of the small coordinates given to cell_key
MaxKeyCoord == 12

\* entity ids supplied by the caller
Ids == {1, 2}
\* entity ids supplied to the stand-alone cell
CellIds == {4, 5, 6}
\* cell dimensions given to GridPartition::new (width, height), both positive
Dims == {<<10, 10>>, <<1, 1>>}
\* positions (x, y) supplied by the caller
Positions == {<<-5, 5>>, <<5, 5>>, <<15, 5>>, <<5, 15>>,
              <<MaxI32, 5>>, <<5, MaxI32>>}

\* SpecKey: cell dimensions and coordinates given to cell_key
KeyDims == {<<10, 10>>, <<1, 1>>, <<3, 7>>}
KeyCoords == (-MaxKeyCoord..MaxKeyCoord) \cup {-MaxI32, MaxI32}

NoPos == <<0, 0>>
NoOp == [kind |-> "none", id |-> 0, p |-> NoPos, q |-> NoPos]

----------------------------------------------------------------------------
(* Sequence helpers *)

Count(s, id) == Cardinality({i \in 1..Len(s) : s[i] = id})
Elems(s) == {s[i] : i \in 1..Len(s)}

----------------------------------------------------------------------------
(* Cell *)

Cell_new == <<>>

Cell_add(ents, entity_id) == Append(ents, entity_id)

\* a remove that pops the last element whatever it is
Cell_remove_pop(ents, entity_id) ==
    IF \E i \in 1..Len(ents) : ents[i] = entity_id
    THEN SubSeq(ents, 1, Len(ents) - 1)
    ELSE ents

\* a remove that drops every occurrence (retain)
Cell_remove_all(ents, entity_id) == SelectSeq(ents, LAMBDA x : x # entity_id)

\* a remove that falls back to the last slot when the id is absent
Cell_remove_or_last(ents, entity_id) ==
    IF Len(ents) = 0 THEN ents
    ELSE LET found == {i \in 1..Len(ents) : ents[i] = entity_id}
             index == IF found = {} THEN Len(ents)
                      ELSE CHOOSE i \in found : \A j \in found : i <= j
         IN  [i \in 1..(Len(ents) - 1) |->
                 IF i = index THEN ents[Len(ents)] ELSE ents[i]]

\* a remove that shifts the tail down (Vec::remove) instead of swapping
Cell_remove_shift(ents, entity_id) ==
    IF \E i \in 1..Len(ents) : ents[i] = entity_id
    THEN LET index == CHOOSE i \in 1..Len(ents) :
                         /\ ents[i] = entity_id
                         /\ \A j \in 1..(i - 1) : ents[j] # entity_id
         IN  [i \in 1..(Len(ents) - 1) |-> IF i < index THEN ents[i] ELSE ents[i + 1]]
    ELSE ents

\* iter().position(..) is the first index; swap_remove(index) moves the last
\* element into the slot and shrinks the vector by one.
Cell_remove(ents, entity_id) ==
    IF \E i \in 1..Len(ents) : ents[i] = entity_id
    THEN LET index == CHOOSE i \in 1..Len(ents) :
                         /\ ents[i] = entity_id
                         /\ \A j \in 1..(i - 1) : ents[j] # entity_id
             last == ents[Len(ents)]
         IN  [i \in 1..(Len(ents) - 1) |-> IF i = index THEN last ELSE ents[i]]
    ELSE ents

----------------------------------------------------------------------------
(* Cell key derivation *)

\* a division that rounds toward negative infinity
FloorDiv(a, b) == a \div b

\* Rust's i32 `/` truncates toward zero (the divisor is positive here).
TruncDiv(a, b) == IF a >= 0 THEN a \div b ELSE -((-a) \div b)

row_col(position) ==
    <<TruncDiv(position[2], cell_height), TruncDiv(position[1], cell_width)>>

cell_key(position) == row_col(position)

----------------------------------------------------------------------------
(* GridPartition *)

\* the cell at key, created empty when there is none
cell_mut(cls, key) ==
    [k \in DOMAIN cls \cup {key} |-> IF k \in DOMAIN cls THEN cls[k] ELSE Cell_new]

add_to_cell(cls, key, entity_id) ==
    [cell_mut(cls, key) EXCEPT ![key] = Cell_add(@, entity_id)]

\* a removal that takes the id out of every cell, not only the one at key
remove_from_every_cell(cls, key, entity_id) ==
    [k \in DOMAIN cls \cup {key} |->
        IF k \in DOMAIN cls THEN Cell_remove(cls[k], entity_id) ELSE Cell_new]

remove_from_cell(cls, key, entity_id) ==
    [cell_mut(cls, key) EXCEPT ![key] = Cell_remove(@, entity_id)]

\* an update_entity whose add_to_cell sits inside the first-registration branch
update_entity_add_on_register(ents, cls, entity_id, position) ==
    LET key == cell_key(position)
    IN  IF entity_id \in DOMAIN ents
        THEN [entities |-> ents,
              cells |-> remove_from_cell(cls, ents[entity_id], entity_id)]
        ELSE [entities |-> [i \in DOMAIN ents \cup {entity_id} |->
                               IF i = entity_id THEN key ELSE ents[i]],
              cells |-> add_to_cell(cls, key, entity_id)]

\* an update_entity that writes the recorded location on every call
update_entity_refresh(ents, cls, entity_id, position) ==
    LET key == cell_key(position)
        cls1 == IF entity_id \in DOMAIN ents
                THEN remove_from_cell(cls, ents[entity_id], entity_id)
                ELSE cls
    IN  [entities |-> [i \in DOMAIN ents \cup {entity_id} |->
                          IF i = entity_id THEN key ELSE ents[i]],
         cells |-> add_to_cell(cls1, key, entity_id)]

\* the two maps after update_entity(entity_id, position) on the maps ents, cls
update_entity(ents, cls, entity_id, position) ==
    LET key == cell_key(position)
        registered == entity_id \in DOMAIN ents
        ents1 == IF registered
                 THEN ents
                 ELSE [i \in DOMAIN ents \cup {entity_id} |->
                          IF i = entity_id THEN key ELSE ents[i]]
        cls1 == IF registered
                THEN remove_from_cell(cls, ents[entity_id], entity_id)
                ELSE cls
    IN  [entities |-> ents1, cells |-> add_to_cell(cls1, key, entity_id)]

\* the members of the cell at key; a missing cell is created empty by cell_mut
cell_entities(cls, key) == IF key \in DOMAIN cls THEN cls[key] ELSE Cell_new

RECURSIVE query_cols(_, _, _, _)
query_cols(cls, row, col, col_end) ==
    IF col >= col_end THEN <<>>
    ELSE cell_entities(cls, <<row, col>>) \o query_cols(cls, row, col + 1, col_end)

RECURSIVE query_rows(_, _, _, _, _)
query_rows(cls, row, row_end, start_col, col_end) ==
    IF row >= row_end THEN <<>>
    ELSE query_cols(cls, row, start_col, col_end)
             \o query_rows(cls, row + 1, row_end, start_col, col_end)

\* the keys of the half-open ranges start_row..row_end, start_col..col_end
query_keys(start_row, row_end, start_col, col_end) ==
    IF row_end <= start_row \/ col_end <= start_col THEN {}
    ELSE (start_row..(row_end - 1)) \X (start_col..(col_end - 1))

\* an inclusive range bound that is one too far
wrapping_add1_off(x) == IF x >= MaxI32 - 1 THEN MinI32 ELSE x + 2

\* x + 1 in i32 when overflow wraps
wrapping_add1(x) == IF x = MaxI32 THEN MinI32 ELSE x + 1

\* whether `end_row + 1` or `end_col + 1` exceeds i32::MAX in this query: the
\* first is computed once, the second only when a row is iterated
query_overflows(start_position, end_position) ==
    LET s == row_col(start_position)
        e == row_col(end_position)
    IN  IF e[1] = MaxI32 THEN TRUE
        ELSE s[1] <= e[1] /\ e[2] = MaxI32

\* query(start_position, end_position) on the cells cls: whether it panics, the
\* returned vector and the cells afterwards.  `end_row + 1` is computed once,
\* `end_col + 1` at the start of every row iteration, before any cell is touched.
query(cls, start_position, end_position) ==
    LET s == row_col(start_position)
        e == row_col(end_position)
        start_row == s[1]
        start_col == s[2]
        end_row == e[1]
        end_col == e[2]
        row_end == wrapping_add1(end_row)
        col_end == wrapping_add1(end_col)
        keys == query_keys(start_row, row_end, start_col, col_end)
    IN  IF overflow_checks /\ query_overflows(start_position, end_position)
        THEN [panic |-> TRUE, entities |-> <<>>, cells |-> cls]
        ELSE [panic |-> FALSE,
              entities |-> query_rows(cls, start_row, row_end, start_col, col_end),
              cells |-> [k \in DOMAIN cls \cup keys |-> cell_entities(cls, k)]]

\* the query enumerates at most (MaxSpan + 1) x (MaxSpan + 1) cells
SpanOk(start_position, end_position) ==
    LET s == row_col(start_position)
        e == row_col(end_position)
        row_end == wrapping_add1(e[1])
        col_end == wrapping_add1(e[2])
    IN  /\ (IF row_end <= s[1] THEN TRUE ELSE row_end - s[1] <= MaxSpan + 1)
        /\ (IF col_end <= s[2] THEN TRUE ELSE col_end - s[2] <= MaxSpan + 1)

----------------------------------------------------------------------------
(* Spec: one GridPartition *)

\* the state after GridPartition::new(width, height)
GridNew(width, height) ==
    /\ cell_width = width
    /\ cell_height = height
    /\ entities = <<>>
    /\ cells = <<>>
    /\ result = <<>>
    /\ panicked = FALSE
    /\ lastOp = NoOp
    /\ lastPos = <<>>
    /\ firstPos = <<>>
    /\ nUpd = [i \in Ids |-> 0]
    /\ nOps = 0
    /\ cell = Cell_new
    /\ cellOp = [kind |-> "none", id |-> 0, found |-> FALSE]
    /\ keyIn = NoPos
    /\ keyOut = <<>>

Init ==
    /\ \E d \in Dims : GridNew(d[1], d[2])
    /\ overflow_checks \in BOOLEAN

UpdateEntity(entity_id, position) ==
    /\ ~panicked
    /\ nOps < MaxOps
    /\ LET r == update_entity(entities, cells, entity_id, position)
       IN  /\ entities' = r.entities
           /\ cells' = r.cells
    /\ lastOp' = [kind |-> "update", id |-> entity_id, p |-> position, q |-> NoPos]
    /\ lastPos' = [i \in DOMAIN lastPos \cup {entity_id} |->
                      IF i = entity_id THEN position ELSE lastPos[i]]
    /\ firstPos' = [i \in DOMAIN firstPos \cup {entity_id} |->
                       IF i \in DOMAIN firstPos THEN firstPos[i] ELSE position]
    /\ nUpd' = [nUpd EXCEPT ![entity_id] = @ + 1]
    /\ nOps' = nOps + 1
    /\ UNCHANGED <<cell_width, cell_height, overflow_checks, result, panicked>>
    /\ UNCHANGED <<cellVars, keyVars>>

Query(start_position, end_position) ==
    /\ ~panicked
    /\ nOps < MaxOps
    /\ SpanOk(start_position, end_position)
    /\ LET r == query(cells, start_position, end_position)
       IN  /\ panicked' = r.panic
           /\ result' = IF r.panic THEN result ELSE r.entities
           /\ cells' = r.cells
    /\ lastOp' = [kind |-> "query", id |-> 0, p |-> start_position, q |-> end_position]
    /\ nOps' = nOps + 1
    /\ UNCHANGED <<cell_width, cell_height, overflow_checks, entities, lastPos,
                   firstPos, nUpd>>
    /\ UNCHANGED <<cellVars, keyVars>>

Next ==
    \/ \E entity_id \in Ids, position \in Positions : UpdateEntity(entity_id, position)
    \/ \E start_position \in Positions, end_position \in Positions :
          Query(start_position, end_position)

Spec == Init /\ [][Next]_vars

----------------------------------------------------------------------------
(* SpecCell: one stand-alone Cell *)

\* the grid is constructed once and left alone
InitCell == GridNew(10, 10) /\ overflow_checks = TRUE

CellAdd(entity_id) ==
    /\ Len(cell) < MaxCellLen
    /\ cell' = Cell_add(cell, entity_id)
    /\ cellOp' = [kind |-> "add", id |-> entity_id, found |-> entity_id \in Elems(cell)]
    /\ UNCHANGED <<gridVars, keyVars>>

CellRemove(entity_id) ==
    /\ cell' = Cell_remove(cell, entity_id)
    /\ cellOp' = [kind |-> "remove", id |-> entity_id, found |-> entity_id \in Elems(cell)]
    /\ UNCHANGED <<gridVars, keyVars>>

NextCell ==
    \/ \E entity_id \in CellIds : CellAdd(entity_id)
    \/ \E entity_id \in CellIds : CellRemove(entity_id)

SpecCell == InitCell /\ [][NextCell]_vars

----------------------------------------------------------------------------
(* SpecKey: cell key derivation on its own *)

InitKey ==
    /\ \E d \in KeyDims : GridNew(d[1], d[2])
    /\ overflow_checks = TRUE

CellKeyOf(position) ==
    /\ keyIn' = position
    /\ keyOut' = cell_key(position)
    /\ UNCHANGED <<gridVars, cellVars>>

NextKey == \E x \in KeyCoords, y \in KeyCoords : CellKeyOf(<<x, y>>)

SpecKey == InitKey /\ [][NextKey]_vars

----------------------------------------------------------------------------
(* Vocabulary of the properties *)

\* cell coordinates of a position, by truncating division
RowOf(position) == TruncDiv(position[2], cell_height)
ColOf(position) == TruncDiv(position[1], cell_width)

\* the members of the cell at key k in the cell map cls (none when it has no cell)
Members(cls, k) == IF k \in DOMAIN cls THEN cls[k] ELSE <<>>

\* position pos lies in the closed rectangle spanned by lo and hi
InRect(pos, lo, hi) ==
    /\ lo[1] <= pos[1] /\ pos[1] <= hi[1]
    /\ lo[2] <= pos[2] /\ pos[2] <= hi[2]

\* row-major order on cell keys
KeyBefore(a, b) == a[1] < b[1] \/ (a[1] = b[1] /\ a[2] < b[2])

\* the memberships of the cells with keys in K, concatenated in row-major order
RECURSIVE ConcatRowMajor(_, _)
ConcatRowMajor(cls, K) ==
    IF K = {} THEN <<>>
    ELSE LET first == CHOOSE k \in K : \A o \in K \ {k} : KeyBefore(k, o)
         IN  cls[first] \o ConcatRowMajor(cls, K \ {first})

\* the existing cells whose row and column lie in the inclusive cell ranges of
\* the two positions
CellsBetween(cls, lo, hi) ==
    {k \in DOMAIN cls : /\ RowOf(lo) <= k[1] /\ k[1] <= RowOf(hi)
                        /\ ColOf(lo) <= k[2] /\ k[2] <= ColOf(hi)}

\* every cell key has the same set of member ids in the cell maps a and b
SameMemberSets(a, b) ==
    \A k \in DOMAIN a \cup DOMAIN b : Elems(Members(a, k)) = Elems(Members(b, k))

----------------------------------------------------------------------------
(* Properties of the grid, checked under Spec *)

\* C1: a query with start <= end componentwise completes and returns every
\* entity whose most recently supplied position lies in the closed rectangle.
C1_QueryCompleteness ==
    (lastOp.kind = "query" /\ lastOp.p[1] <= lastOp.q[1] /\ lastOp.p[2] <= lastOp.q[2])
        => /\ ~panicked
           /\ \A id \in DOMAIN lastPos :
                 InRect(lastPos[id], lastOp.p, lastOp.q) => id \in Elems(result)

\* C2: a query returns exactly the row-major concatenation of the memberships
\* of the cells in the inclusive cell ranges of its two positions.
C2_QueryRowMajorConcat ==
    lastOp.kind = "query"
        => /\ ~panicked
           /\ result = ConcatRowMajor(cells, CellsBetween(cells, lastOp.p, lastOp.q))

\* C3: the first move of an entity (its second update) takes it out of the cell
\* of its first position, puts it into the cell of the new position and leaves
\* the number of occurrences of every other entity in every cell unchanged.
C3_FirstMoveEvicts ==
    [][(lastOp'.kind = "update" /\ nOps' = nOps + 1 /\ nUpd[lastOp'.id] = 1)
          => LET id == lastOp'.id
                 k1 == <<RowOf(lastPos[id]), ColOf(lastPos[id])>>
                 k2 == <<RowOf(lastOp'.p), ColOf(lastOp'.p)>>
             IN  /\ k1 # k2 => id \notin Elems(Members(cells', k1))
                 /\ id \in Elems(Members(cells', k2))
                 /\ \A j \in Ids \ {id} : \A k \in DOMAIN cells \cup DOMAIN cells' :
                       Count(Members(cells', k), j) = Count(Members(cells, k), j)]_vars

\* C3 witness: an entity has just made its first move into another cell, and a
\* second entity is still in the cell it left.
C3_Witness ==
    /\ lastOp.kind = "update"
    /\ nUpd[lastOp.id] = 2
    /\ entities[lastOp.id] # <<RowOf(lastOp.p), ColOf(lastOp.p)>>
    /\ lastOp.id \notin Elems(Members(cells, entities[lastOp.id]))
    /\ \E j \in Ids \ {lastOp.id} : j \in Elems(Members(cells, entities[lastOp.id]))

\* C4: the only cell containing a registered entity is the cell of the position
\* of its most recent update.
C4_OnlyCurrentCell ==
    \A id \in DOMAIN lastPos : \A k \in DOMAIN cells :
        id \in Elems(cells[k]) => k = <<RowOf(lastPos[id]), ColOf(lastPos[id])>>

\* C5: no cell's membership sequence contains an entity id more than once.
C5_AtMostOnce ==
    \A k \in DOMAIN cells : \A id \in Ids : Count(cells[k], id) <= 1

\* C6: after update_entity(id, p), a second update_entity(id, p) leaves every
\* cell with the same set of member ids.
C6_UpdateIdempotent ==
    lastOp.kind = "update"
        => SameMemberSets(update_entity(entities, cells, lastOp.id, lastOp.p).cells,
                          cells)

\* C6 witness: the entity was just updated to a position whose cell is not its
\* recorded cell, so the repeated update removes from one cell and adds to another.
C6_Witness ==
    /\ lastOp.kind = "update"
    /\ nUpd[lastOp.id] >= 2
    /\ entities[lastOp.id] # <<RowOf(lastOp.p), ColOf(lastOp.p)>>
    /\ \E j \in Ids \ {lastOp.id} : j \in Elems(Members(cells, entities[lastOp.id]))

\* C7: the entity-to-cell-key map holds, for every registered entity, the cell
\* key of the position of its most recent update.
C7_LocationTracksLast ==
    \A id \in DOMAIN lastPos :
        /\ id \in DOMAIN entities
        /\ entities[id] = <<RowOf(lastPos[id]), ColOf(lastPos[id])>>

C9_Totality ==
    /\ ~panicked
    /\ lastOp.kind = "query" => ~query_overflows(lastOp.p, lastOp.q)

----------------------------------------------------------------------------
(* Properties of a stand-alone cell, checked under SpecCell *)

\* C10: remove(id) on a cell containing id takes away exactly one occurrence of
\* id, keeps the number of occurrences of every other id and shortens the
\* sequence by exactly one.
C10_RemoveExactlyOne ==
    [][(cellOp'.kind = "remove" /\ cellOp'.id \in Elems(cell))
          => /\ Count(cell', cellOp'.id) = Count(cell, cellOp'.id) - 1
             /\ \A j \in CellIds \ {cellOp'.id} : Count(cell', j) = Count(cell, j)
             /\ Len(cell') = Len(cell) - 1]_vars

\* C10 witness: a remove found its id, and another occurrence of that id is
\* still in the cell next to a different id.
C10_Witness ==
    /\ cellOp.kind = "remove"
    /\ cellOp.found
    /\ cellOp.id \in Elems(cell)
    /\ \E j \in CellIds \ {cellOp.id} : j \in Elems(cell)

\* C11: remove(id) on a cell that does not contain id, the empty cell included,
\* leaves the membership sequence as it was, order included.
C11_RemoveAbsentNoOp ==
    [][(cellOp'.kind = "remove" /\ cellOp'.id \notin Elems(cell)) => cell' = cell]_vars

\* C11 witness: a remove that did not find its id was made on a cell of two or
\* more members.
C11_Witness ==
    /\ cellOp.kind = "remove"
    /\ ~cellOp.found
    /\ Len(cell) >= 2

\* the index of the first occurrence of id in the sequence s
FirstIndex(s, id) == CHOOSE i \in 1..Len(s) : s[i] = id /\ \A j \in 1..Len(s) : s[j] = id => i <= j

\* C15: remove(id) on a cell containing id puts the previous last element into
\* the slot of the first occurrence of id and shortens the sequence by one, all
\* other slots keeping their element (<<4, 5, 6>> becomes <<6, 5>> on remove(4));
\* add(id) appends id, also when id is already a member.
C15_SwapAndTruncate ==
    [][/\ (cellOp'.kind = "remove" /\ cellOp'.id \in Elems(cell))
           => /\ Len(cell') = Len(cell) - 1
              /\ \A i \in 1..Len(cell') :
                    cell'[i] = IF i = FirstIndex(cell, cellOp'.id)
                               THEN cell[Len(cell)] ELSE cell[i]
              /\ (cell = <<4, 5, 6>> /\ cellOp'.id = 4) => cell' = <<6, 5>>
       /\ cellOp'.kind = "add"
           => /\ Len(cell') = Len(cell) + 1
              /\ cell'[Len(cell')] = cellOp'.id
              /\ \A i \in 1..Len(cell) : cell'[i] = cell[i]]_vars

\* C15 witness: remove(4) has turned <<4, 5, 6>> into <<6, 5>>.
C15_Witness ==
    /\ cellOp.kind = "remove"
    /\ cellOp.id = 4
    /\ cellOp.found
    /\ cell = <<6, 5>>

----------------------------------------------------------------------------
(* Properties of cell key derivation, checked under SpecKey *)

\* q is a / d rounded toward zero, for d > 0: q has the sign of a (or is 0) and
\* its magnitude n is the largest with n * d <= |a|
IsTruncatedQuotient(a, d, q) ==
    LET m == IF a >= 0 THEN a ELSE -a
        n == IF a >= 0 THEN q ELSE -q
    IN  /\ n >= 0
        /\ n <= m \div d
        /\ m - n * d < d

\* C12: the key of (x, y) is (y / cell_height, x / cell_width) rounded toward
\* zero: coordinates strictly between -size and size map to 0, a negative
\* coordinate that is no multiple of the size maps one above its floor
\* quotient, and with size 10 (0,0) and (5,5) map to (0,0), (10,5) to (0,1),
\* (5,10) to (1,0).
C12_TruncatingCellKey ==
    keyOut # <<>>
        => LET x == keyIn[1]
               y == keyIn[2]
               row == keyOut[1]
               col == keyOut[2]
           IN  /\ IsTruncatedQuotient(y, cell_height, row)
               /\ IsTruncatedQuotient(x, cell_width, col)
               /\ (-cell_width < x /\ x < cell_width) => col = 0
               /\ (-cell_height < y /\ y < cell_height) => row = 0
               /\ (x < 0 /\ x % cell_width # 0) => col = (x \div cell_width) + 1
               /\ (y < 0 /\ y % cell_height # 0) => row = (y \div cell_height) + 1
               /\ (cell_width = 10 /\ cell_height = 10)
                     => /\ keyIn \in {<<0, 0>>, <<5, 5>>} => keyOut = <<0, 0>>
                        /\ keyIn = <<10, 5>> => keyOut = <<0, 1>>
                        /\ keyIn = <<5, 10>> => keyOut = <<1, 0>>

\* C12 witness: a negative x that is no multiple of the width was mapped to
\* column 0, where floor division gives -1.
C12_Witness ==
    /\ keyOut # <<>>
    /\ keyIn[1] < 0
    /\ keyIn[1] % cell_width # 0
    /\ keyIn[1] \div cell_width = -1
    /\ keyOut[2] = 0

----------------------------------------------------------------------------
(* Further properties of the grid, checked under Spec *)

\* key k lies in the inclusive cell ranges spanned by the positions lo and hi
InCellRange(k, lo, hi) ==
    /\ RowOf(lo) <= k[1] /\ k[1] <= RowOf(hi)
    /\ ColOf(lo) <= k[2] /\ k[2] <= ColOf(hi)

\* the inclusive range lo..hi has at most MaxSpan + 1 elements
SmallRange(lo, hi) ==
    IF hi < lo THEN TRUE
    ELSE IF lo >= MaxI32 - MaxSpan THEN TRUE
    ELSE hi <= lo + MaxSpan

\* the cell keys of the positions a caller supplies
PositionKeys == {<<RowOf(pos), ColOf(pos)>> : pos \in Positions}

\* the cell keys are exactly the keys before plus the keys the query from lo to
\* hi enumerates (for a range too large to list: no key of a supplied position
\* inside the range is missing)
CreatesEnumerated(before, after, lo, hi) ==
    IF SmallRange(RowOf(lo), RowOf(hi)) /\ SmallRange(ColOf(lo), ColOf(hi))
    THEN after = before \cup ((RowOf(lo)..RowOf(hi)) \X (ColOf(lo)..ColOf(hi)))
    ELSE /\ before \subseteq after
         /\ \A k \in after \ before : InCellRange(k, lo, hi)
         /\ \A k \in PositionKeys : InCellRange(k, lo, hi) => k \in after

\* the step is a call of query
IsQueryStep == lastOp'.kind = "query" /\ nOps' = nOps + 1

\* the step is a call of update_entity
IsUpdateStep == lastOp'.kind = "update" /\ nOps' = nOps + 1

\* C13: a query returns, leaves the entity map and every existing cell's
\* membership unchanged, creates an empty cell for exactly the enumerated keys
\* that had none, returns the empty sequence when no enumerated key had a cell,
\* and returns the same result when it repeats the previous query.
C13_QueryOnlyCreatesCells ==
    [][IsQueryStep
          => /\ ~panicked'
             /\ entities' = entities
             /\ \A k \in DOMAIN cells : k \in DOMAIN cells' /\ cells'[k] = cells[k]
             /\ \A k \in DOMAIN cells' \ DOMAIN cells : cells'[k] = <<>>
             /\ CreatesEnumerated(DOMAIN cells, DOMAIN cells', lastOp'.p, lastOp'.q)
             /\ (\A k \in DOMAIN cells : ~InCellRange(k, lastOp'.p, lastOp'.q))
                   => result' = <<>>
             /\ (lastOp.kind = "query" /\ lastOp.p = lastOp'.p /\ lastOp.q = lastOp'.q)
                   => result' = result]_vars

\* every key the query from lo to hi enumerates is among the keys `after` (for
\* a range too large to list: every key of a supplied position inside it)
EnumeratedHaveCells(after, lo, hi) ==
    IF SmallRange(RowOf(lo), RowOf(hi)) /\ SmallRange(ColOf(lo), ColOf(hi))
    THEN ((RowOf(lo)..RowOf(hi)) \X (ColOf(lo)..ColOf(hi))) \subseteq after
    ELSE \A k \in PositionKeys : InCellRange(k, lo, hi) => k \in after

\* C14: no call removes a cell key, also not the key of a cell that has become
\* empty; after update_entity the target key and the recorded old key have a
\* cell, after query every enumerated key has one.
C14_CellsAccumulate ==
    [][/\ DOMAIN cells \subseteq DOMAIN cells'
       /\ IsUpdateStep
             => /\ <<RowOf(lastOp'.p), ColOf(lastOp'.p)>> \in DOMAIN cells'
                /\ lastOp'.id \in DOMAIN entities
                      => entities[lastOp'.id] \in DOMAIN cells'
       /\ IsQueryStep
             => EnumeratedHaveCells(DOMAIN cells', lastOp'.p, lastOp'.q)]_vars

\* 1 when the condition holds, 0 otherwise
One(cond) == IF cond THEN 1 ELSE 0

\* C16: update_entity records the cell key of the position for an unseen id
\* and adds the id to that cell; for a registered id it leaves the recorded key
\* as it is, takes one occurrence of the id (if any) out of the cell at the
\* recorded key and adds the id to the target cell; so the recorded key of
\* every id is the cell key of the first position supplied for it.
C16_LocationWrittenOnce ==
    [][/\ IsUpdateStep
             => LET id == lastOp'.id
                    target == <<RowOf(lastOp'.p), ColOf(lastOp'.p)>>
                    seen == id \in DOMAIN entities
                    old == IF seen THEN entities[id] ELSE target
                    evicted == seen /\ id \in Elems(Members(cells, old))
                IN  /\ DOMAIN entities' = DOMAIN entities \cup {id}
                    /\ entities'[id] = IF seen THEN entities[id] ELSE target
                    /\ \A k \in DOMAIN cells \cup DOMAIN cells' :
                          Count(Members(cells', k), id)
                             = Count(Members(cells, k), id)
                                  - One(evicted /\ k = old) + One(k = target)
       /\ \A id \in DOMAIN firstPos' :
             /\ id \in DOMAIN entities'
             /\ entities'[id] = <<RowOf(firstPos'[id]), ColOf(firstPos'[id])>>]_vars

\* C16 witness: an entity has been moved twice, its last position lies in
\* another cell than its first, and the recorded key is still that of the first.
C16_Witness ==
    /\ lastOp.kind = "update"
    /\ nUpd[lastOp.id] >= 3
    /\ <<RowOf(firstPos[lastOp.id]), ColOf(firstPos[lastOp.id])>>
          # <<RowOf(lastOp.p), ColOf(lastOp.p)>>
    /\ entities[lastOp.id] = <<RowOf(firstPos[lastOp.id]), ColOf(firstPos[lastOp.id])>>

\* C17: update_entity(id, p) leaves the recorded location of every other entity
\* and its number of occurrences in every cell unchanged; it changes the
\* number of occurrences of id only in the cell at id's recorded key and in the
\* target cell; every other cell keeps its sequence and the target cell keeps
\* its previous members in order in front of the added id.
C17_UpdateFrame ==
    [][IsUpdateStep
          => LET id == lastOp'.id
                 target == <<RowOf(lastOp'.p), ColOf(lastOp'.p)>>
                 touched == IF id \in DOMAIN entities
                            THEN {entities[id], target} ELSE {target}
                 same_cell == id \in DOMAIN entities /\ entities[id] = target
             IN  /\ \A j \in Ids \ {id} :
                       /\ j \in DOMAIN entities' <=> j \in DOMAIN entities
                       /\ j \in DOMAIN entities => entities'[j] = entities[j]
                       /\ \A k \in DOMAIN cells \cup DOMAIN cells' :
                             Count(Members(cells', k), j) = Count(Members(cells, k), j)
                 /\ \A k \in (DOMAIN cells \cup DOMAIN cells') \ touched :
                       Members(cells', k) = Members(cells, k)
                 /\ ~same_cell
                       => SubSeq(cells'[target], 1, Len(Members(cells, target)))
                             = Members(cells, target)]_vars

\* C17 witness: an already registered entity was updated while another entity
\* was a member of the target cell, and that entity is still there.
C17_Witness ==
    /\ lastOp.kind = "update"
    /\ nUpd[lastOp.id] >= 2
    /\ \E j \in DOMAIN entities \ {lastOp.id} :
          j \in Elems(Members(cells, <<RowOf(lastOp.p), ColOf(lastOp.p)>>))

\* the entity ids that occur in some cell of the cell map cls
IdsInCells(cls) == UNION {Elems(cls[k]) : k \in DOMAIN cls}

\* C18: the ids occurring in some cell are exactly the keys of the entity map;
\* every registered id is a member of the cell of its most recent position and
\* no id that was never updated is registered or in a cell.
C18_MapsAgree ==
    /\ IdsInCells(cells) = DOMAIN entities
    /\ \A id \in DOMAIN lastPos :
          /\ id \in DOMAIN entities
          /\ id \in Elems(Members(cells, <<RowOf(lastPos[id]), ColOf(lastPos[id])>>))
    /\ \A id \in Ids \ DOMAIN lastPos :
          id \notin DOMAIN entities /\ id \notin IdsInCells(cells)

\* C18 witness: a registered entity is a member of two cells at once while the
\* other entity has never been updated.
C18_Witness ==
    /\ \E id \in DOMAIN entities :
          Cardinality({k \in DOMAIN cells : id \in Elems(cells[k])}) >= 2
    /\ DOMAIN lastPos # Ids

====
